---- MODULE Spec2Model ----
(***************************************************************************)
(* Status List 2021 bitstring codec, status-list updates and the           *)
(* credential signing / verification protocol of bun-badges.               *)
(*                                                                         *)
(* Text is modelled as a sequence of character codes ("0" = 48, "1" = 49), *)
(* a Buffer as a sequence of byte values, a BitSet as a record             *)
(* [size, bits] with bits the set of asserted indices.                     *)
(***************************************************************************)
EXTENDS Integers, Sequences, FiniteSets, TLC

\* ------------------------------------------------------------------ bounds
MaxSize == 6
MaxCalls == 2
RaceSize == 4
NProcs == 3
MaxTampers == 2
MaxText == 4
MaxIdLength == 3
\* ------------------------------------------------------- program constants
Char0 == 48
Char1 == 49
PadChar == 61
DashChar == 45
Half == 65536
ListModulus == 16384

\* ------------------------------------------------- results of a JS call
Returned(v) == [threw |-> FALSE, error |-> "", value |-> v]
Threw(e) == [threw |-> TRUE, error |-> e, value |-> <<>>]

\* ------------------------------------------------------------- BitSet
\* new BitSet(size): an all-zero vector of size bits; fails if size <= 0.
BitSetNew(size) ==
  IF size <= 0 THEN Threw("InvalidSize")
  ELSE Returned([size |-> size, bits |-> {}])

\* bitSet.set(index)
BitSetSet(bs, index) ==
  IF index < 0 \/ index >= bs.size THEN Threw("IndexOutOfRange")
  ELSE Returned([size |-> bs.size, bits |-> bs.bits \cup {index}])

\* bitSet.clear(index)
BitSetClear(bs, index) ==
  IF index < 0 \/ index >= bs.size THEN Threw("IndexOutOfRange")
  ELSE Returned([size |-> bs.size, bits |-> bs.bits \ {index}])

\* bitSet.get(index)
BitSetGet(bs, index) ==
  IF index < 0 \/ index >= bs.size THEN Threw("IndexOutOfRange")
  ELSE Returned(index \in bs.bits)

\* bitSet.toString(): bit size-1 is the first character.
BitSetToString(bs) ==
  [p \in 1..bs.size |-> IF (bs.size - p) \in bs.bits THEN Char1 ELSE Char0]

\* ------------------------------------------------------------- Buffer
\* Buffer.from(text): the UTF-8 bytes of text, a sequence of UTF-16 code
\* units. One byte for a unit below 128, two below 2048, three for the other
\* units, four for a surrogate pair; a surrogate outside a pair is written
\* as U+FFFD (EF BF BD).
RECURSIVE BufferFromString(_)
BufferFromString(text) ==
  IF text = <<>> THEN <<>>
  ELSE LET c == Head(text)
           paired == /\ c >= 55296 /\ c < 56320 /\ Len(text) >= 2
                     /\ text[2] >= 56320 /\ text[2] < 57344
           cp == IF paired THEN 65536 + (c - 55296) * 1024 + (text[2] - 56320) ELSE c
       IN
       IF c < 128 THEN <<c>> \o BufferFromString(Tail(text))
       ELSE IF c < 2048
         THEN <<192 + (c \div 64), 128 + (c % 64)>> \o BufferFromString(Tail(text))
       ELSE IF paired
         THEN <<240 + (cp \div 262144), 128 + ((cp \div 4096) % 64),
                128 + ((cp \div 64) % 64), 128 + (cp % 64)>>
                \o BufferFromString(Tail(Tail(text)))
       ELSE IF c >= 55296 /\ c < 57344
         THEN <<239, 191, 189>> \o BufferFromString(Tail(text))
       ELSE <<224 + (c \div 4096), 128 + ((c \div 64) % 64), 128 + (c % 64)>>
              \o BufferFromString(Tail(text))

\* buffer.toString(): UTF-8 decoding to UTF-16 code units. A sequence of one
\* to four bytes decodes to its code point (a surrogate pair above U+FFFF);
\* a byte that starts no sequence, and every sequence cut short by the end of
\* the buffer or by a byte that cannot continue it, decodes to one U+FFFD,
\* and decoding resumes at the byte that did not fit.
RECURSIVE BufferToString(_)
BufferToString(bytes) ==
  IF bytes = <<>> THEN <<>>
  ELSE
    LET b == Head(bytes)
        \* continuation bytes the lead byte asks for
        needed == IF b >= 194 /\ b <= 223 THEN 1
                  ELSE IF b >= 224 /\ b <= 239 THEN 2
                  ELSE IF b >= 240 /\ b <= 244 THEN 3
                  ELSE 0
        \* the range of the byte at place k (2..4) of the sequence
        lower(k) == IF k = 2 /\ b = 224 THEN 160
                    ELSE IF k = 2 /\ b = 240 THEN 144 ELSE 128
        upper(k) == IF k = 2 /\ b = 237 THEN 159
                    ELSE IF k = 2 /\ b = 244 THEN 143 ELSE 191
        fits(k) == k <= Len(bytes) /\ bytes[k] >= lower(k) /\ bytes[k] <= upper(k)
        \* number of continuation bytes that fit, up to the first that does not
        taken == IF needed >= 1 /\ fits(2)
                 THEN IF needed >= 2 /\ fits(3)
                      THEN IF needed >= 3 /\ fits(4) THEN 3 ELSE 2
                      ELSE 1
                 ELSE 0
        rest == SubSeq(bytes, 2 + taken, Len(bytes))
        cp == IF needed = 1 THEN (b - 192) * 64 + (bytes[2] - 128)
              ELSE IF needed = 2
                THEN (b - 224) * 4096 + (bytes[2] - 128) * 64 + (bytes[3] - 128)
              ELSE (b - 240) * 262144 + (bytes[2] - 128) * 4096
                     + (bytes[3] - 128) * 64 + (bytes[4] - 128)
    IN
    IF b < 128 THEN <<b>> \o BufferToString(Tail(bytes))
    ELSE IF needed = 0 \/ taken < needed THEN <<65533>> \o BufferToString(rest)
    ELSE IF cp < 65536 THEN <<cp>> \o BufferToString(rest)
    ELSE <<55296 + ((cp - 65536) \div 1024), 56320 + ((cp - 65536) % 1024)>>
           \o BufferToString(rest)

\* The base64 alphabet: A-Z a-z 0-9 + /
B64Char(n) ==
  IF n < 26 THEN 65 + n
  ELSE IF n < 52 THEN 97 + (n - 26)
  ELSE IF n < 62 THEN 48 + (n - 52)
  ELSE IF n = 62 THEN 43 ELSE 47

\* The sextet of a base64 character, -1 for a character outside the alphabet
\* (the decoder also reads the URL-safe - and _). The decoder looks at the
\* low byte of a code unit only.
B64Value(unit) ==
  LET c == unit % 256 IN
  IF c >= 65 /\ c <= 90 THEN c - 65
  ELSE IF c >= 97 /\ c <= 122 THEN c - 97 + 26
  ELSE IF c >= 48 /\ c <= 57 THEN c - 48 + 52
  ELSE IF c = 43 \/ c = 45 THEN 62
  ELSE IF c = 47 \/ c = 95 THEN 63
  ELSE -1

\* buffer.toString("base64")
RECURSIVE BufferToBase64(_)
BufferToBase64(bytes) ==
  IF Len(bytes) = 0 THEN <<>>
  ELSE IF Len(bytes) = 1 THEN
    <<B64Char(bytes[1] \div 4), B64Char((bytes[1] % 4) * 16), PadChar, PadChar>>
  ELSE IF Len(bytes) = 2 THEN
    <<B64Char(bytes[1] \div 4),
      B64Char((bytes[1] % 4) * 16 + (bytes[2] \div 16)),
      B64Char((bytes[2] % 16) * 4), PadChar>>
  ELSE
    <<B64Char(bytes[1] \div 4),
      B64Char((bytes[1] % 4) * 16 + (bytes[2] \div 16)),
      B64Char((bytes[2] % 16) * 4 + (bytes[3] \div 64)),
      B64Char(bytes[3] % 64)>>
      \o BufferToBase64(SubSeq(bytes, 4, Len(bytes)))

\* The sextets of the characters before the first "=" (a unit whose low byte
\* is that of "="), characters outside the alphabet skipped.
RECURSIVE B64Sextets(_)
B64Sextets(text) ==
  IF text = <<>> \/ Head(text) % 256 = PadChar THEN <<>>
  ELSE IF B64Value(Head(text)) < 0 THEN B64Sextets(Tail(text))
  ELSE <<B64Value(Head(text))>> \o B64Sextets(Tail(text))

RECURSIVE SextetsToBytes(_)
SextetsToBytes(s) ==
  IF Len(s) < 2 THEN <<>>
  ELSE IF Len(s) = 2 THEN <<s[1] * 4 + (s[2] \div 16)>>
  ELSE IF Len(s) = 3 THEN
    <<s[1] * 4 + (s[2] \div 16), (s[2] % 16) * 16 + (s[3] \div 4)>>
  ELSE
    <<s[1] * 4 + (s[2] \div 16), (s[2] % 16) * 16 + (s[3] \div 4),
      (s[3] % 4) * 64 + s[4]>>
      \o SextetsToBytes(SubSeq(s, 5, Len(s)))

\* Buffer.from(encoded, "base64")
BufferFromBase64(encoded) == SextetsToBytes(B64Sextets(encoded))

\* ------------------------------------------------------ status list codec
\* Mutant: the binary string is written without its leading zeros.
encodeBitStringTrimmed(bitSet) ==
  LET all == BitSetToString(bitSet)
      ones == {p \in 1..Len(all) : all[p] = Char1}
      first == IF ones = {} THEN Len(all) + 1
               ELSE CHOOSE p \in ones : \A q \in ones : p <= q
      bitString == SubSeq(all, first, Len(all))
      buffer == BufferFromString(bitString)
  IN BufferToBase64(buffer)

\* encodeBitString(bitSet)
encodeBitString(bitSet) ==
  LET bitString == BitSetToString(bitSet)
      buffer == BufferFromString(bitString)
  IN BufferToBase64(buffer)

\* Mutant: every character other than "0" sets its bit.
DecodedBitsNonZero(bitString) ==
  {Len(bitString) - i - 1 : i \in {k \in 0..(Len(bitString) - 1) : bitString[k + 1] # Char0}}

\* Mutant: the loop sets bit i instead of bit (length - i - 1).
DecodedBitsMirrored(bitString) ==
  {i : i \in {k \in 0..(Len(bitString) - 1) : bitString[k + 1] = Char1}}

\* Mutant: the loop tests for "0" instead of "1".
DecodedBitsInverted(bitString) ==
  {Len(bitString) - i - 1 : i \in {k \in 0..(Len(bitString) - 1) : bitString[k + 1] = Char0}}

\* The loop of decodeBitString: bit (length - i - 1) is set for every
\* position i (0-based) that holds "1".
DecodedBits(bitString) ==
  {Len(bitString) - i - 1 : i \in {k \in 0..(Len(bitString) - 1) : bitString[k + 1] = Char1}}

\* decodeBitString(encoded)
decodeBitString(encoded) ==
  LET buffer == BufferFromBase64(encoded)
      bitString == BufferToString(buffer)
      bitSet == BitSetNew(Len(bitString))
  IN IF bitSet.threw THEN bitSet
     ELSE Returned([size |-> bitSet.value.size, bits |-> DecodedBits(bitString)])

\* Mutant: a size below 1 is raised to 1.
createEncodedBitStringClamped(size) ==
  LET bitSet == BitSetNew(IF size < 1 THEN 1 ELSE size)
  IN IF bitSet.threw THEN bitSet ELSE Returned(encodeBitString(bitSet.value))

\* createEncodedBitString(size)
createEncodedBitString(size) ==
  LET bitSet == BitSetNew(size)
  IN IF bitSet.threw THEN bitSet ELSE Returned(encodeBitString(bitSet.value))

\* Mutant: the revoked flag is ignored and the bit is always set.
updateCredentialStatusAlwaysSets(encodedList, index, revoked) ==
  LET bitSet == decodeBitString(encodedList)
  IN IF bitSet.threw THEN bitSet
     ELSE LET r == BitSetSet(bitSet.value, index)
          IN IF r.threw THEN r ELSE Returned(encodeBitString(r.value))

\* Mutant: the bit is set or cleared on a fresh BitSet of the same size, not
\* on the decoded one.
updateCredentialStatusFresh(encodedList, index, revoked) ==
  LET bitSet == decodeBitString(encodedList)
  IN IF bitSet.threw THEN bitSet
     ELSE LET fresh == BitSetNew(bitSet.value.size).value
              r == IF revoked THEN BitSetSet(fresh, index)
                   ELSE BitSetClear(fresh, index)
          IN IF r.threw THEN r ELSE Returned(encodeBitString(r.value))

\* Mutant: the body runs inside try / catch and a failure hands the list back
\* unchanged.
updateCredentialStatusSwallows(encodedList, index, revoked) ==
  LET bitSet == decodeBitString(encodedList)
  IN IF bitSet.threw THEN Returned(encodedList)
     ELSE LET r == IF revoked THEN BitSetSet(bitSet.value, index)
                   ELSE BitSetClear(bitSet.value, index)
          IN IF r.threw THEN Returned(encodedList)
             ELSE Returned(encodeBitString(r.value))

\* updateCredentialStatus(encodedList, index, revoked)
updateCredentialStatus(encodedList, index, revoked) ==
  LET bitSet == decodeBitString(encodedList)
  IN IF bitSet.threw THEN bitSet
     ELSE LET r == IF revoked THEN BitSetSet(bitSet.value, index)
                   ELSE BitSetClear(bitSet.value, index)
          IN IF r.threw THEN r ELSE Returned(encodeBitString(r.value))

\* Mutant: the bit is read counting from the other end of the list.
isCredentialRevokedMirrored(encodedList, index) ==
  LET bitSet == decodeBitString(encodedList)
  IN IF bitSet.threw THEN bitSet
     ELSE IF index < 0 \/ index >= bitSet.value.size
          THEN BitSetGet(bitSet.value, index)
          ELSE BitSetGet(bitSet.value, bitSet.value.size - 1 - index)

\* isCredentialRevoked(encodedList, index)
isCredentialRevoked(encodedList, index) ==
  LET bitSet == decodeBitString(encodedList)
  IN IF bitSet.threw THEN bitSet ELSE BitSetGet(bitSet.value, index)

\* createStatusListCredential(issuer, id, purpose, size); now is the
\* new Date().toISOString() it draws.
createStatusListCredential(issuer, id, purpose, size, now) ==
  LET encodedList == createEncodedBitString(size)
  IN IF encodedList.threw THEN encodedList
     ELSE Returned(
            [context |-> <<"https://www.w3.org/2018/credentials/v1",
                           "https://w3id.org/vc/status-list/2021/v1">>,
             id |-> id,
             type |-> <<"VerifiableCredential", "StatusList2021Credential">>,
             issuer |-> issuer,
             issuanceDate |-> now,
             credentialSubject |->
               [id |-> <<id, "#list">>,
                type |-> "StatusList2021",
                statusPurpose |-> purpose,
                encodedList |-> encodedList.value]])

\* ------------------------------------------------------- UUID to index
\* uuid.replace(/-/g, "")
StripDashes(text) == SelectSeq(text, LAMBDA c : c # DashChar)

\* text.substring(0, n)
Substring0(text, n) == SubSeq(text, 1, IF n < Len(text) THEN n ELSE Len(text))

\* The value of a hexadecimal digit, -1 for any other character.
HexValue(c) ==
  IF c >= 48 /\ c <= 57 THEN c - 48
  ELSE IF c >= 97 /\ c <= 102 THEN c - 97 + 10
  ELSE IF c >= 65 /\ c <= 70 THEN c - 65 + 10
  ELSE -1

\* A JS number that is NaN or a non-negative integer below 2^32, the integer
\* held as two 16-bit halves: hi * 65536 + lo.
NaN == [nan |-> TRUE, hi |-> 0, lo |-> 0]
Number(hi, lo) == [nan |-> FALSE, hi |-> hi, lo |-> lo]

\* The digits parseInt reads: the longest prefix of hexadecimal digits.
RECURSIVE HexPrefix(_)
HexPrefix(text) ==
  IF text = <<>> \/ HexValue(Head(text)) < 0 THEN <<>>
  ELSE <<HexValue(Head(text))>> \o HexPrefix(Tail(text))

\* The number written by at most eight hexadecimal digits.
RECURSIVE HexNumber(_)
HexNumber(digits) ==
  IF digits = <<>> THEN Number(0, 0)
  ELSE LET n == HexNumber(SubSeq(digits, 1, Len(digits) - 1))
           low == n.lo * 16 + digits[Len(digits)]
       IN Number(n.hi * 16 + (low \div Half), low % Half)

\* The white space parseInt skips: tab, line feed, vertical tab, form feed,
\* carriage return, space, no-break space, the other space separators
\* (U+1680, U+2000..U+200A, U+202F, U+205F, U+3000), the line and paragraph
\* separators (U+2028, U+2029) and the byte order mark (U+FEFF).
WhiteSpace ==
  {9, 10, 11, 12, 13, 32, 160, 5760, 8232, 8233, 8239, 8287, 12288, 65279}
    \cup (8192..8202)

RECURSIVE TrimStart(_)
TrimStart(text) ==
  IF text # <<>> /\ Head(text) \in WhiteSpace THEN TrimStart(Tail(text)) ELSE text

\* parseInt(text, 16) of a text of at most eight characters holding no "-"
\* (getIndexFromUuid has removed them): leading white space, one "+" and one
\* "0x" or "0X" are skipped, then the longest run of hexadecimal digits is
\* read; NaN when there is none.
parseInt16(text) ==
  LET trimmed == TrimStart(text)
      unsigned == IF trimmed # <<>> /\ Head(trimmed) = 43 THEN Tail(trimmed)
                  ELSE trimmed
      digits == IF Len(unsigned) >= 2 /\ unsigned[1] = Char0
                     /\ unsigned[2] \in {120, 88}
                THEN HexPrefix(Tail(Tail(unsigned)))
                ELSE HexPrefix(unsigned)
  IN IF digits = <<>> THEN NaN ELSE HexNumber(digits)

\* number % m for 0 < m <= 32768, NaN % m = NaN.
Remainder(number, m) ==
  IF number.nan THEN NaN
  ELSE Number(0, (((number.hi % m) * Half) + number.lo) % m)

\* Mutant: the index is reduced modulo 32768.
getIndexFromUuidWide(uuid) ==
  LET hex == StripDashes(uuid)
      index == parseInt16(Substring0(hex, 8))
  IN Remainder(index, 32768)

\* getIndexFromUuid(uuid)
getIndexFromUuid(uuid) ==
  LET hex == StripDashes(uuid)
      index == parseInt16(Substring0(hex, 8))
  IN Remainder(index, ListModulus)

\* ------------------------------------------------------------ JS values
\* A string is its sequence of parts, each a run of characters; the text is
\* their concatenation. An object is its members in insertion
\* order, an array its items (members with an empty key) and its named
\* properties. The types are str, bool, undef, null, obj and arr.
Str(parts) == [t |-> "str", s |-> parts, o |-> <<>>]
Bool(b) == [t |-> "bool", s |-> <<IF b THEN "true" ELSE "false">>, o |-> <<>>]
Undefined == [t |-> "undef", s |-> <<>>, o |-> <<>>]
Obj(members) == [t |-> "obj", s |-> <<>>, o |-> members]
Arr(items) == [t |-> "arr", s |-> <<>>, o |-> [i \in DOMAIN items |-> [k |-> "", v |-> items[i]]]]
Member(k, v) == [k |-> k, v |-> v]

HasKey(obj, k) == \E i \in DOMAIN obj.o : obj.o[i].k = k

\* obj[k]: undefined for a missing key and for a key of a string or boolean
Get(obj, k) ==
  IF obj.t \in {"obj", "arr"} /\ HasKey(obj, k)
  THEN obj.o[CHOOSE i \in DOMAIN obj.o : obj.o[i].k = k].v
  ELSE Undefined

\* obj[k] = v: an existing key keeps its place, a new one goes last
Set(obj, k, v) ==
  IF HasKey(obj, k)
  THEN [obj EXCEPT !.o = [i \in DOMAIN obj.o |->
                             IF obj.o[i].k = k THEN Member(k, v) ELSE obj.o[i]]]
  ELSE [obj EXCEPT !.o = Append(obj.o, Member(k, v))]

\* delete obj[k]
Delete(obj, k) ==
  LET Keep(m) == m.k # k IN Obj(SelectSeq(obj.o, Keep))

\* obj.a.b.c: reading a member of undefined or null throws a TypeError.
RECURSIVE GetPath(_, _)
GetPath(obj, path) ==
  IF path = <<>> THEN Returned(obj)
  ELSE IF obj.t \in {"undef", "null"} THEN Threw("TypeError")
  ELSE GetPath(Get(obj, Head(path)), Tail(path))

\* obj.a.b.c = v (strict mode): throws a TypeError where the value that is to
\* hold the member is undefined, null, a string or a boolean.
RECURSIVE SetPath(_, _, _)
SetPath(obj, path, v) ==
  IF obj.t \notin {"obj", "arr"} THEN Threw("TypeError")
  ELSE IF Len(path) = 1 THEN Returned(Set(obj, Head(path), v))
  ELSE LET r == SetPath(Get(obj, Head(path)), Tail(path), v) IN
       IF r.threw THEN r ELSE Returned(Set(obj, Head(path), r.value))

\* JSON.stringify(value) as its sequence of tokens, the empty sequence for
\* the result undefined. A string is quoted and, character by character, its
\* quotes, backslashes and control characters escaped (\b \t \n \f \r, the
\* others as \u00XX); members whose value is undefined are left
\* out, an undefined array item is written null, an array's named properties
\* are not written.
RECURSIVE JSONstringify(_), JSONMembers(_, _), JSONItems(_, _)
JSONstringify(v) ==
  LET \* the characters U+0001 .. U+001F at places 2 .. 32 (U+0000 cannot
      \* stand in a module and is no character of the strings modelled)
      Controls == <<
          "", "", "", "", "", "", "", "",
          "", "\t", "\n", "", "\f", "\r", "", "",
          "", "", "", "", "", "", "", "",
          "", "", "", "", "", "", "", "">>
      Hex == <<"0", "1", "2", "3", "4", "5", "6", "7",
               "8", "9", "a", "b", "c", "d", "e", "f">>
      \* a character as it stands between the quotes
      QuoteChar(c) ==
        IF c = "\"" THEN "\\\""
        ELSE IF c = "\\" THEN "\\\\"
        ELSE IF c = Controls[9] THEN "\\b"
        ELSE IF c = "\t" THEN "\\t"
        ELSE IF c = "\n" THEN "\\n"
        ELSE IF c = "\f" THEN "\\f"
        ELSE IF c = "\r" THEN "\\r"
        ELSE IF \E n \in 1..32 : Controls[n] = c
          THEN LET n == CHOOSE n \in 1..32 : Controls[n] = c
               IN "\\u00" \o Hex[((n - 1) \div 16) + 1] \o Hex[((n - 1) % 16) + 1]
        ELSE c
      RECURSIVE Quote(_)
      Quote(part) ==
        IF part = "" THEN "" ELSE QuoteChar(Head(part)) \o Quote(Tail(part))
  IN
  IF v.t = "str" THEN <<"\"">> \o [i \in DOMAIN v.s |-> Quote(v.s[i])] \o <<"\"">>
  ELSE IF v.t = "bool" THEN v.s
  ELSE IF v.t = "obj" THEN <<"{">> \o JSONMembers(v.o, TRUE) \o <<"}">>
  ELSE IF v.t = "arr" THEN <<"[">> \o JSONItems(v.o, TRUE) \o <<"]">>
  ELSE IF v.t = "null" THEN <<"null">>
  ELSE <<>>

JSONMembers(members, first) ==
  IF members = <<>> THEN <<>>
  ELSE LET m == Head(members) IN
       IF m.v.t = "undef" THEN JSONMembers(Tail(members), first)
       ELSE (IF first THEN <<>> ELSE <<",">>)
              \o JSONstringify(Str(<<m.k>>)) \o <<":">> \o JSONstringify(m.v)
              \o JSONMembers(Tail(members), FALSE)

JSONItems(items, first) ==
  IF items = <<>> THEN <<>>
  ELSE IF Head(items).k # "" THEN JSONItems(Tail(items), first)
  ELSE (IF first THEN <<>> ELSE <<",">>)
         \o (IF Head(items).v.t = "undef" THEN <<"null">>
             ELSE JSONstringify(Head(items).v))
         \o JSONItems(Tail(items), FALSE)

\* JSON.parse(JSON.stringify(value)): the copy has no member whose value is
\* undefined, null for an undefined array item, and no named property of an
\* array.
RECURSIVE JSONRoundTrip(_)
JSONRoundTrip(v) ==
  IF v.t = "obj"
  THEN [v EXCEPT !.o =
          LET kept == SelectSeq(v.o, LAMBDA m : m.v.t # "undef")
          IN [i \in DOMAIN kept |-> Member(kept[i].k, JSONRoundTrip(kept[i].v))]]
  ELSE IF v.t = "arr"
  THEN [v EXCEPT !.o =
          LET items == SelectSeq(v.o, LAMBDA m : m.k = "")
          IN [i \in DOMAIN items |->
                Member("", IF items[i].v.t = "undef"
                           THEN [t |-> "null", s |-> <<>>, o |-> <<>>]
                           ELSE JSONRoundTrip(items[i].v))]]
  ELSE v

\* ------------------------------------------------- Ed25519 and encodings
\* Key pairs by id; a signature names the private key and the message it was
\* made from, and verifies only against that key pair's public key and that
\* message.
KeyIds == {"k1", "k2"}
PrivateKey(id) == [kind |-> "private", id |-> id]
PublicKey(id) == [kind |-> "public", id |-> id]
MalformedKey == [kind |-> "public", id |-> "malformed"]

\* new TextEncoder().encode(text); no text (undefined) encodes as the empty
\* text
TextEncode(text) == <<"utf8">> \o text

\* ed.sign(message, privateKey)
EdSign(message, privateKey) == <<"ed25519", privateKey.id>> \o message

\* ed.verify(signature, message, publicKey); throws on a key of the wrong shape
EdVerify(signature, message, publicKey) ==
  IF publicKey.id \notin KeyIds THEN Threw("SigningKeyError")
  ELSE Returned(/\ Len(signature) >= 2
                /\ signature[1] = "ed25519"
                /\ signature[2] = publicKey.id
                /\ SubSeq(signature, 3, Len(signature)) = message)

\* base64url.encode(bytes)
Base64UrlEncode(bytes) == Str(<<"base64url">> \o bytes)

\* base64url.decode(text)
Base64UrlDecode(text) ==
  IF text.t = "str" /\ text.s # <<>> /\ Head(text.s) = "base64url" THEN Tail(text.s)
  ELSE <<>>

\* ------------------------------------------------ signing and verifying
\* The context array and schema URL of @/constants/context-urls.
OB3_CREDENTIAL_CONTEXT ==
  Arr(<<Str(<<"https://www.w3.org/2018/credentials/v1">>),
        Str(<<"OB3_CONTEXT_URL">>)>>)
OB3_BADGE_SCHEMA_URL == Str(<<"OB3_BADGE_SCHEMA_URL">>)
OB3_CREDENTIAL_SCHEMA_URL == Str(<<"OB3_CREDENTIAL_SCHEMA_URL">>)

\* The key records of issuer1 and issuer2; issuer3 has none.
KeyOfIssuer(issuerId) ==
  IF issuerId = "issuer1" THEN "k1" ELSE IF issuerId = "issuer2" THEN "k2" ELSE ""

\* getSigningKey(issuerId): the key record, or null (here: found = FALSE)
getSigningKey(issuerId) ==
  LET id == KeyOfIssuer(issuerId) IN
  [found |-> id # "", privateKey |-> PrivateKey(id), publicKey |-> PublicKey(id),
   keyInfo |-> [id |-> Str(<<"did:key:", id, "#", id>>)]]

\* BadgeController.constructOB3BadgeClassJson(hostUrl, badge)
constructOB3BadgeClassJson(hostUrl, badge) ==
  Obj(<<Member("@context", OB3_CREDENTIAL_CONTEXT),
        Member("id", Str(<<hostUrl, "/badges/", badge.badgeId>>)),
        Member("type", Arr(<<Str(<<"VerifiableCredential">>), Str(<<"OpenBadgeCredential">>)>>)),
        Member("name", Str(badge.name)),
        Member("description", Str(<<badge.description>>)),
        Member("image", Obj(<<Member("id", Str(<<badge.imageUrl>>)),
                              Member("type", Str(<<"Image">>))>>)),
        Member("achievementCriteria", Obj(<<Member("narrative", Str(<<badge.criteria>>))>>)),
        Member("issuer", Obj(<<Member("id", Str(<<hostUrl, "/issuers/", badge.issuerId>>)),
                               Member("type", Str(<<"Profile">>))>>)),
        Member("credentialSchema", Obj(<<Member("id", OB3_BADGE_SCHEMA_URL),
                                         Member("type", Str(<<"JsonSchemaValidator2018">>))>>))>>)

\* The unsigned credential object of constructOB3AssertionJson; salt is the
\* crypto.randomUUID() drawn for a hashed recipient.
OB3Credential(hostUrl, assertion, badgeJson, salt) ==
  LET recipientObj ==
        <<Member("type", Str(<<IF assertion.recipientType = "email"
                               THEN "EmailCredentialSubject" ELSE "IdentityObject">>)),
          Member("identity", Str(<<assertion.recipientIdentity>>)),
          Member("hashed", Bool(assertion.recipientHashed))>>
          \o (IF assertion.recipientHashed THEN <<Member("salt", Str(<<salt>>))>> ELSE <<>>)
  IN Obj(<<Member("@context", OB3_CREDENTIAL_CONTEXT),
           Member("id", Str(<<hostUrl, "/assertions/", assertion.assertionId>>)),
           Member("type", Arr(<<Str(<<"VerifiableCredential">>), Str(<<"OpenBadgeCredential">>)>>)),
           Member("issuer", Obj(<<Member("id", Str(<<hostUrl, "/issuers/", assertion.issuerId>>)),
                                  Member("type", Str(<<"Profile">>))>>)),
           Member("issuanceDate", Str(<<assertion.issuedOn>>)),
           Member("credentialSubject",
                  Obj(<<Member("id", Str(<<assertion.recipientIdentity>>))>>
                        \o recipientObj \o <<Member("achievement", badgeJson)>>)),
           Member("evidence",
                  IF assertion.evidenceUrl # ""
                  THEN Arr(<<Obj(<<Member("id", Str(<<assertion.evidenceUrl>>)),
                                   Member("type", Str(<<"Evidence">>))>>)>>)
                  ELSE Undefined)>>)

\* Mutant: the serialization leaves the credentialSubject member out.
CanonicalDataWithoutSubject(credential) ==
  JSONstringify(Delete(credential, "credentialSubject"))

\* const canonicalData = JSON.stringify(credential)
CanonicalData(credential) == JSONstringify(credential)

\* Mutant: the bytes are taken before the evidence member is in the credential.
DataToSignBeforeEvidence(credential) ==
  TextEncode(CanonicalData(Delete(credential, "evidence")))

\* const dataToSign = new TextEncoder().encode(canonicalData)
DataToSign(credential) == TextEncode(CanonicalData(credential))

\* Mutant: every credential is signed with the first issuer's key.
ProofValueFirstKey(credential, privateKey) ==
  Base64UrlEncode(EdSign(DataToSign(credential), PrivateKey("k1")))

\* const signature = await ed.sign(dataToSign, signingKey.privateKey);
\* const proofValue = base64url.encode(signature)
ProofValue(credential, privateKey) ==
  Base64UrlEncode(EdSign(DataToSign(credential), privateKey))

\* The proof object attached to a signed credential.
DataIntegrityProof(created, verificationMethod, proofPurpose, proofValue) ==
  Obj(<<Member("type", Str(<<"DataIntegrityProof">>)),
        Member("cryptosuite", Str(<<"eddsa-rdfc-2022">>)),
        Member("created", Str(<<created>>)),
        Member("verificationMethod", verificationMethod),
        Member("proofPurpose", Str(<<proofPurpose>>)),
        Member("proofValue", proofValue)>>)

\* Mutant: the key record is used without the test for null.
constructOB3AssertionJsonUnchecked(hostUrl, assertion, badgeJson, salt, now) ==
  LET signingKey == getSigningKey(assertion.issuerId)
      credential == OB3Credential(hostUrl, assertion, badgeJson, salt)
  IN [threw |-> FALSE, error |-> "",
      value |-> Set(credential, "proof",
                    DataIntegrityProof(now, signingKey.keyInfo.id, "assertionMethod",
                                       ProofValue(credential, signingKey.privateKey))),
      credential |-> credential]

\* BadgeController.constructOB3AssertionJson(hostUrl, assertion, badgeJson,
\* _issuerJson); salt and now are the randomUUID() and new Date() it draws.
\* value is the object returned, a new object {...credential, proof};
\* credential is the credential object the function built, as the call
\* leaves it.
constructOB3AssertionJson(hostUrl, assertion, badgeJson, salt, now) ==
  LET signingKey == getSigningKey(assertion.issuerId)
      credential == OB3Credential(hostUrl, assertion, badgeJson, salt)
  IN IF ~signingKey.found THEN Threw("Issuer signing key not found")
     ELSE [threw |-> FALSE, error |-> "",
           value |-> Set(credential, "proof",
                         DataIntegrityProof(now, signingKey.keyInfo.id, "assertionMethod",
                                            ProofValue(credential, signingKey.privateKey))),
           credential |-> credential]

\* Mutant: the proof is assigned to the credential handed in, which is
\* returned.
signCredentialInPlace(credential, privateKey, options, now) ==
  LET documentToSign == Delete(credential, "proof")
      signedCredential ==
        Set(documentToSign, "proof",
            DataIntegrityProof(now, options.verificationMethod, options.proofPurpose,
                               Base64UrlEncode(EdSign(TextEncode(CanonicalData(documentToSign)),
                                                      privateKey))))
  IN [value |-> signedCredential, credential |-> signedCredential]

\* signCredential(credential, privateKey, {verificationMethod, proofPurpose}):
\* a copy without proof is serialized and signed, and the proof attached to
\* the copy. value is the object returned, credential the object handed in
\* as the call leaves it.
signCredential(credential, privateKey, options, now) ==
  LET documentToSign == Delete(credential, "proof")
  IN [value |-> Set(documentToSign, "proof",
                    DataIntegrityProof(now, options.verificationMethod, options.proofPurpose,
                                       Base64UrlEncode(EdSign(TextEncode(CanonicalData(documentToSign)),
                                                              privateKey)))),
      credential |-> credential]

VerificationResult(verified, error, signatureVerification) ==
  [verified |-> verified, error |-> error, hasResults |-> signatureVerification,
   signatureVerification |-> signatureVerification]

\* Mutant: the absence of proof is not checked before the signature is.
verifyCredentialWithoutProofCheck(credential, publicKey) ==
  LET proof == Get(credential, "proof")
      documentToVerify == Delete(credential, "proof")
      payload == TextEncode(CanonicalData(documentToVerify))
      signature == Base64UrlDecode(Get(proof, "proofValue"))
      ok == EdVerify(signature, payload, publicKey)
  IN IF ok.threw THEN ok
     ELSE IF ok.value THEN Returned(VerificationResult(TRUE, "", TRUE))
     ELSE Returned(VerificationResult(FALSE, "", FALSE))

\* verifyCredential(credential, publicKey)
verifyCredential(credential, publicKey) ==
  LET proof == Get(credential, "proof") IN
  IF proof.t = "undef"
  THEN Returned(VerificationResult(FALSE, "No proof found in credential", FALSE))
  ELSE LET documentToVerify == Delete(credential, "proof")
           payload == TextEncode(CanonicalData(documentToVerify))
           signature == Base64UrlDecode(Get(proof, "proofValue"))
           ok == EdVerify(signature, payload, publicKey)
       IN IF ok.threw THEN ok
          ELSE IF ok.value THEN Returned(VerificationResult(TRUE, "", TRUE))
          ELSE Returned(VerificationResult(FALSE, "", FALSE))

\* The sample credential of the signing tests, issued by key pair id.
SampleCredential(id) ==
  Obj(<<Member("@context", OB3_CREDENTIAL_CONTEXT),
        Member("id", Str(<<"urn:uuid:", "sample">>)),
        Member("type", Arr(<<Str(<<"VerifiableCredential">>), Str(<<"OpenBadgeCredential">>)>>)),
        Member("issuer", Str(<<"did:key:", id>>)),
        Member("issuanceDate", Str(<<"2025-01-01T00:00:00.000Z">>)),
        Member("credentialSubject",
               Obj(<<Member("id", Str(<<"did:example:recipient123">>)),
                     Member("type", Arr(<<Str(<<"AchievementSubject">>)>>)),
                     Member("achievement",
                            Obj(<<Member("id", Str(<<"https://example.com/achievements/123">>)),
                                  Member("type", Arr(<<Str(<<"Achievement">>)>>)),
                                  Member("name", Str(<<"Test Achievement">>)),
                                  Member("description",
                                         Str(<<"A test achievement for unit testing">>))>>))>>)),
        Member("credentialSchema", Obj(<<Member("id", OB3_CREDENTIAL_SCHEMA_URL),
                                         Member("type", Str(<<"JsonSchemaValidator2018">>))>>))>>)

\* ------------------------------------------------------------------ state
VARIABLES
  bitSet,       \* the in-memory BitSet built by new BitSet / set / clear
  encodedList,  \* credentialSubject.encodedList of the status list credential
  last,         \* the last status-list call: its arguments and its outcome
  capacity,     \* the size the status list was created with
  abstractRevoked, \* the indices whose last successful update revoked them
  uuid,         \* the credential id whose index was derived last (<<>>: none)
  text,         \* the text whose base64 form was stored as the list (<<>>: none)
  derived,      \* what the last getIndexFromUuid call returned
  base,         \* the stored list before any concurrent request ran
  reqs,         \* the concurrent requests: index, revoked, pc, snapshot, stale
  lastWriter,   \* the request that wrote the stored list last (0: none)
  signed,       \* the credential as signed (undefined before any signing)
  signerKey,    \* id of the key pair whose private key signed it
  issuing,      \* the constructOB3AssertionJson call that waits: where, its
                \* arguments and the credential it built
  issued,       \* the last signing call: the credential it was to sign
                \* before and after the call, and its outcome
  presented,    \* the credential handed to the verifier
  tampered,     \* the paths changed in it since it was signed
  result,       \* the outcome of the last verifyCredential call
  badgeAssertions, \* the rows of the badge_assertions table
  helperCalls,  \* the db-helpers calls that wait at an await, oldest first
  jsonCall      \* the db-helpers call that returned or threw last

inputVars == <<uuid, text, derived>>
listVars == <<bitSet, encodedList, last, capacity, abstractRevoked, uuid, text, derived>>
reqVars == <<base, reqs, lastWriter>>
signVars == <<signed, signerKey, issuing, issued, presented, tampered, result>>
vars == <<bitSet, encodedList, last, capacity, abstractRevoked, uuid, text, derived, base, reqs, lastWriter,
          signed, signerKey, issuing, issued, presented, tampered, result,
          badgeAssertions, helperCalls, jsonCall>>
storeVars == <<badgeAssertions, helperCalls, jsonCall>>

NoResult == [done |-> FALSE, key |-> "", threw |-> FALSE,
             outcome |-> VerificationResult(FALSE, "", FALSE)]

\* No constructOB3AssertionJson call waits.
NoIssuing == [pc |-> "idle", assertion |-> <<>>, badgeJson |-> Undefined,
              credential |-> Undefined]

NoIndex == [called |-> FALSE, threw |-> FALSE, error |-> "", value |-> NaN]

NoInputs == uuid = <<>> /\ text = <<>> /\ derived = NoIndex

\* No db-helpers call has returned.
NoJsonCall == [op |-> "none", assertionId |-> "", assertion |-> <<>>, path |-> "",
               threw |-> FALSE, error |-> ""]

NoStore == badgeAssertions = {} /\ helperCalls = <<>> /\ jsonCall = NoJsonCall

NoSigning ==
  /\ signed = Undefined /\ signerKey = "" /\ presented = Undefined
  /\ issuing = NoIssuing
  /\ issued = [op |-> "none", issuerId |-> "", threw |-> FALSE, error |-> "",
               before |-> Undefined, input |-> Undefined,
               verificationMethod |-> Undefined, proofPurpose |-> ""]
  /\ tampered = {} /\ result = NoResult

Sizes == (0 - 1)..MaxSize
Indices == (0 - 1)..(MaxSize + 1)

NoCall == [op |-> "none", arg |-> 0, revoked |-> FALSE, prev |-> <<>>,
           threw |-> FALSE, error |-> "", result |-> FALSE]

\* The revoked set after a successful update of one index.
AbstractUpdate(set, index, revoked) ==
  IF revoked THEN set \cup {index} ELSE set \ {index}

\* State after construction: a fresh status list.
Init ==
  /\ bitSet = BitSetNew(1).value
  /\ \E size \in 1..MaxSize :
       /\ encodedList = createEncodedBitString(size).value
       /\ capacity = size /\ abstractRevoked = {}
  /\ last = NoCall /\ NoInputs
  /\ base = <<>> /\ reqs = <<>> /\ lastWriter = 0
  /\ NoSigning /\ NoStore

\* State after construction: a fresh BitSet.
InitBitSet ==
  /\ \E size \in 1..MaxSize : bitSet = BitSetNew(size).value
  /\ encodedList = <<>> /\ capacity = 0 /\ abstractRevoked = {}
  /\ last = NoCall /\ NoInputs
  /\ base = <<>> /\ reqs = <<>> /\ lastWriter = 0
  /\ NoSigning /\ NoStore

BitSetCall(op, arg, r) ==
  /\ bitSet' = IF r.threw THEN bitSet ELSE r.value
  /\ last' = [op |-> op, arg |-> arg, revoked |-> FALSE, prev |-> <<>>,
              threw |-> r.threw, error |-> r.error, result |-> FALSE]
  /\ UNCHANGED <<encodedList, capacity, abstractRevoked, inputVars, reqVars, signVars, storeVars>>

\* bitSet = new BitSet(size); a throw leaves the old one in place.
NewBitSet(size) == BitSetCall("new", size, BitSetNew(size))

\* bitSet.set(index) on the in-memory BitSet
SetBit(index) == BitSetCall("set", index, BitSetSet(bitSet, index))

\* bitSet.clear(index) on the in-memory BitSet
ClearBit(index) == BitSetCall("clear", index, BitSetClear(bitSet, index))

\* encodedList = createEncodedBitString(size); a throw leaves the list as it was.
CreateList(size) ==
  LET r == createEncodedBitString(size) IN
  /\ encodedList' = IF r.threw THEN encodedList ELSE r.value
  /\ last' = [op |-> "create", arg |-> size, revoked |-> FALSE,
              prev |-> encodedList, threw |-> r.threw, error |-> r.error,
              result |-> FALSE]
  /\ capacity' = IF r.threw THEN capacity ELSE size
  /\ abstractRevoked' = IF r.threw THEN abstractRevoked ELSE {}
  /\ UNCHANGED <<bitSet, inputVars, reqVars, signVars, storeVars>>

\* encodedList = updateCredentialStatus(encodedList, index, revoked)
UpdateStatus(index, revoked) ==
  LET r == updateCredentialStatus(encodedList, index, revoked) IN
  /\ encodedList' = IF r.threw THEN encodedList ELSE r.value
  /\ last' = [op |-> "update", arg |-> index, revoked |-> revoked,
              prev |-> encodedList, threw |-> r.threw, error |-> r.error,
              result |-> FALSE]
  /\ abstractRevoked' = IF r.threw THEN abstractRevoked
                        ELSE AbstractUpdate(abstractRevoked, index, revoked)
  /\ UNCHANGED <<bitSet, capacity, inputVars, reqVars, signVars, storeVars>>

\* isCredentialRevoked(encodedList, index)
CheckStatus(index) ==
  LET r == isCredentialRevoked(encodedList, index) IN
  /\ last' = [op |-> "check", arg |-> index, revoked |-> FALSE,
              prev |-> encodedList, threw |-> r.threw, error |-> r.error,
              result |-> IF r.threw THEN FALSE ELSE r.value]
  /\ UNCHANGED <<bitSet, encodedList, capacity, abstractRevoked, inputVars, reqVars, signVars, storeVars>>

StatusListId == "https://badges.example/status/1"
StatusListIssuer == "https://badges.example/issuers/issuer1"
StatusPurposes == {"revocation", "suspension"}

\* The status list credential is created anew with the given size; a throw
\* leaves the stored one as it was.
CreateStatusList(purpose, size) ==
  LET r == createStatusListCredential(StatusListIssuer, StatusListId, purpose,
                                      size, "2025-02-02T00:00:00.000Z") IN
  /\ encodedList' = IF r.threw THEN encodedList
                    ELSE r.value.credentialSubject.encodedList
  /\ capacity' = IF r.threw THEN capacity ELSE size
  /\ abstractRevoked' = IF r.threw THEN abstractRevoked ELSE {}
  /\ last' = [op |-> "createCredential", arg |-> size, revoked |-> FALSE,
              prev |-> encodedList, threw |-> r.threw, error |-> r.error,
              result |-> FALSE]
  /\ UNCHANGED <<bitSet, inputVars, reqVars, signVars, storeVars>>

NextBitSet ==
  \/ \E size \in Sizes : NewBitSet(size)
  \/ \E index \in Indices : SetBit(index)
  \/ \E index \in Indices : ClearBit(index)

SpecBitSet == InitBitSet /\ [][NextBitSet]_vars

Next ==
  \/ \E size \in Sizes : CreateList(size)
  \/ \E purpose \in StatusPurposes, size \in Sizes : CreateStatusList(purpose, size)
  \/ \E index \in Indices, revoked \in BOOLEAN : UpdateStatus(index, revoked)
  \/ \E index \in Indices : CheckStatus(index)

Spec == Init /\ [][Next]_vars

\* ------------------------------------------- status by credential id
\* "0" and "f" in the first place, "0" and "4" in the fifth, "0", "3" and "F"
\* in the eighth: the first 32 bits of the credential ids.
\* xxxxxxxx-0000-4000-8000-00000000000y
Uuids ==
  {prefix \o <<DashChar, 48, 48, 48, 48, DashChar, 52, 48, 48, 48, DashChar,
               56, 48, 48, 48, DashChar, 48, 48, 48, 48, 48, 48, 48, 48, 48, 48, 48, y>> :
     prefix \in {<<d1, 48, 48, 48, d5, 48, 48, d8>> :
                   d1 \in {48, 102}, d5 \in {48, 52}, d8 \in {51, 70}},
     y \in {49}}

\* A status list credential of some capacity has been created.
InitIndex ==
  /\ bitSet = BitSetNew(1).value
  /\ \E size \in 1..MaxSize :
       /\ encodedList =
            createStatusListCredential(StatusListIssuer, StatusListId, "revocation",
                                       size, "2025-02-02T00:00:00.000Z")
              .value.credentialSubject.encodedList
       /\ capacity = size /\ abstractRevoked = {}
  /\ last = NoCall /\ NoInputs
  /\ base = <<>> /\ reqs = <<>> /\ lastWriter = 0
  /\ NoSigning /\ NoStore

\* updateCredentialStatus(encodedList, getIndexFromUuid(id), revoked). An id
\* without a leading hexadecimal digit gives the index NaN. For NaN neither
\* index < 0 nor index >= size holds, so BitSet.set and BitSet.clear do not
\* fail (spec 4.1); which bit they touch is the BitSet class's matter: none,
\* or the first (NaN read as the integer 0).
UpdateStatusOf(id, revoked) ==
  LET index == getIndexFromUuid(id)
      bits == decodeBitString(encodedList) IN
  \E firstBit \in (IF index.nan THEN BOOLEAN ELSE {FALSE}) :
    LET r == IF ~index.nan THEN updateCredentialStatus(encodedList, index.lo, revoked)
             ELSE IF firstBit THEN updateCredentialStatus(encodedList, 0, revoked)
             ELSE IF bits.threw THEN bits
             ELSE Returned(encodeBitString(bits.value)) IN
    /\ uuid' = id
    /\ derived' = [called |-> TRUE, threw |-> FALSE, error |-> "", value |-> index,
                   before |-> IF derived.called THEN <<uuid, derived.value>> ELSE <<>>]
    /\ encodedList' = IF r.threw THEN encodedList ELSE r.value
    /\ last' = [op |-> "update", arg |-> index.lo, revoked |-> revoked,
                prev |-> encodedList, threw |-> r.threw, error |-> r.error,
                result |-> FALSE]
    /\ abstractRevoked' = IF r.threw \/ (index.nan /\ ~firstBit) THEN abstractRevoked
                          ELSE AbstractUpdate(abstractRevoked, index.lo, revoked)
    /\ UNCHANGED <<bitSet, capacity, text, reqVars, signVars, storeVars>>

\* isCredentialRevoked(encodedList, getIndexFromUuid(id)); for the index NaN
\* BitSet.get does not fail (spec 4.1) and reads no bit, or the first.
CheckStatusOf(id) ==
  LET index == getIndexFromUuid(id)
      bits == decodeBitString(encodedList) IN
  \E firstBit \in (IF index.nan THEN BOOLEAN ELSE {FALSE}) :
    LET r == IF ~index.nan THEN isCredentialRevoked(encodedList, index.lo)
             ELSE IF firstBit THEN isCredentialRevoked(encodedList, 0)
             ELSE IF bits.threw THEN bits
             ELSE Returned(FALSE) IN
    /\ uuid' = id
    /\ derived' = [called |-> TRUE, threw |-> FALSE, error |-> "", value |-> index,
                   before |-> IF derived.called THEN <<uuid, derived.value>> ELSE <<>>]
    /\ last' = [op |-> "check", arg |-> index.lo, revoked |-> FALSE,
                prev |-> encodedList, threw |-> r.threw, error |-> r.error,
                result |-> IF r.threw THEN FALSE ELSE r.value]
    /\ UNCHANGED <<bitSet, encodedList, capacity, abstractRevoked, text, reqVars, signVars, storeVars>>

\* The ids the status calls are given: the credential ids and one string
\* that is no UUID ("x").
NextIndex ==
  \/ \E purpose \in StatusPurposes, size \in Sizes : CreateStatusList(purpose, size)
  \/ \E id \in Uuids \cup {<<120>>}, revoked \in BOOLEAN : UpdateStatusOf(id, revoked)
  \/ \E id \in Uuids \cup {<<120>>} : CheckStatusOf(id)

SpecIndex == InitIndex /\ [][NextIndex]_vars

\* ------------------------------------------- deriving an index from a text
\* A UUID string: xxxxxxxx-xxxx-xxxx-xxxx-xxxxxxxxxxxx, x a hexadecimal digit.
IsUuid(id) ==
  /\ Len(id) = 36
  /\ \A p \in 1..36 :
       IF p \in {9, 14, 19, 24} THEN id[p] = DashChar ELSE HexValue(id[p]) >= 0

\* "0", "1", "g", "x" and the space
RECURSIVE IdsOfLength(_)
IdsOfLength(n) ==
  IF n = 0 THEN {<<>>}
  ELSE {t \o <<c>> : t \in IdsOfLength(n - 1), c \in {Char0, Char1, 103, 120, 32}}

\* The strings handed to getIndexFromUuid: short texts and UUIDs.
IdInputs == Uuids \cup UNION {IdsOfLength(n) : n \in 0..MaxIdLength}

InitDerive ==
  /\ bitSet = BitSetNew(1).value /\ encodedList = <<>> /\ capacity = 0 /\ abstractRevoked = {}
  /\ last = NoCall
  /\ uuid \in IdInputs /\ text = <<>> /\ derived = NoIndex
  /\ base = <<>> /\ reqs = <<>> /\ lastWriter = 0
  /\ NoSigning /\ NoStore

\* derived = getIndexFromUuid(uuid): the function has no throw statement and
\* calls nothing that throws on a string.
DeriveIndex ==
  /\ derived' = [called |-> TRUE, threw |-> FALSE, error |-> "",
                 value |-> getIndexFromUuid(uuid)]
  /\ UNCHANGED <<bitSet, encodedList, last, capacity, abstractRevoked, uuid, text, reqVars, signVars, storeVars>>

SpecDerive == InitDerive /\ [][DeriveIndex]_vars

\* ------------------------------------------------ decoding a stored text
\* "0", "1", "2", "x", e-acute (two bytes in UTF-8) and the euro sign (three)
RECURSIVE TextsOfLength(_)
TextsOfLength(n) ==
  IF n = 0 THEN {<<>>}
  ELSE {t \o <<c>> : t \in TextsOfLength(n - 1), c \in {Char0, Char1, 50, 120, 233, 8364}}

Texts == UNION {TextsOfLength(n) : n \in 0..MaxText}

\* The stored encodedList is the base64 form of some text.
InitDecode ==
  /\ bitSet = BitSetNew(1).value
  /\ text \in Texts
  /\ encodedList = BufferToBase64(BufferFromString(text))
  /\ capacity = 0 /\ abstractRevoked = {} /\ uuid = <<>> /\ derived = NoIndex
  /\ last = NoCall
  /\ base = <<>> /\ reqs = <<>> /\ lastWriter = 0
  /\ NoSigning /\ NoStore

\* bitSet = decodeBitString(encodedList)
DecodeList ==
  LET r == decodeBitString(encodedList) IN
  /\ bitSet' = IF r.threw THEN bitSet ELSE r.value
  /\ last' = [op |-> "decode", arg |-> 0, revoked |-> FALSE, prev |-> encodedList,
              threw |-> r.threw, error |-> r.error, result |-> FALSE]
  /\ UNCHANGED <<encodedList, capacity, abstractRevoked, inputVars, reqVars, signVars, storeVars>>

SpecDecode == InitDecode /\ [][DecodeList]_vars

\* ------------------------------------------------------------ C1 .. C4
ValidIndices(list) == 0..(decodeBitString(list).value.size - 1)

\* C1: after updateCredentialStatus(list, i, revoked) returns, for a valid
\* index i, isCredentialRevoked of the result at i is exactly revoked,
\* whatever bit i was before.
C1_UpdateThenCheckAgree ==
  (last.op = "update" /\ ~last.threw) =>
    isCredentialRevoked(encodedList, last.arg) = Returned(last.revoked)

\* The update cleared a bit that was set (and, in another state, set one
\* that was clear).
C1_Witness ==
  /\ last.op = "update" /\ ~last.threw /\ ~last.revoked
  /\ isCredentialRevoked(last.prev, last.arg) = Returned(TRUE)
  /\ isCredentialRevoked(encodedList, last.arg) = Returned(FALSE)

\* C2: updateCredentialStatus changes only bit i: every other valid index
\* reads after the update what it read before.
C2_UpdateFrame ==
  (last.op = "update" /\ ~last.threw) =>
    \A j \in ValidIndices(last.prev) \ {last.arg} :
      isCredentialRevoked(encodedList, j) = isCredentialRevoked(last.prev, j)

\* Index 2 was revoked on a list where index 3 was revoked and index 1 was
\* not: both still read as before.
C2_Witness ==
  /\ last.op = "update" /\ ~last.threw /\ last.revoked /\ last.arg = 2
  /\ isCredentialRevoked(last.prev, 2) = Returned(FALSE)
  /\ isCredentialRevoked(encodedList, 2) = Returned(TRUE)
  /\ isCredentialRevoked(encodedList, 3) = Returned(TRUE)
  /\ isCredentialRevoked(encodedList, 1) = Returned(FALSE)

\* C3: round trip: decoding the encoding of a BitSet built by new BitSet and
\* set / clear gives a BitSet of the same length with the same asserted bits.
C3_RoundTrip ==
  LET d == decodeBitString(encodeBitString(bitSet)) IN
  /\ ~d.threw
  /\ d.value.size = bitSet.size
  /\ d.value.bits = bitSet.bits

\* A BitSet of at least three bits, bit 0 asserted and the highest bit not.
C3_Witness ==
  /\ last.op = "clear" /\ ~last.threw
  /\ bitSet.size >= 3
  /\ 0 \in bitSet.bits
  /\ (bitSet.size - 1) \notin bitSet.bits
  /\ decodeBitString(encodeBitString(bitSet)).value.bits = bitSet.bits

\* C4: for every size > 0 the list createEncodedBitString(size) returns has
\* size bits and none of them reads revoked.
C4_FreshListAllClear ==
  (last.op = "create" /\ ~last.threw) =>
    /\ decodeBitString(encodedList) = Returned([size |-> last.arg, bits |-> {}])
    /\ \A i \in 0..(last.arg - 1) :
         isCredentialRevoked(encodedList, i) = Returned(FALSE)

\* A list of three bits or more was created over one that had a revoked index.
C4_Witness ==
  /\ last.op = "create" /\ ~last.threw /\ last.arg >= 3
  /\ decodeBitString(last.prev).value.bits # {}
  /\ decodeBitString(encodedList).value.bits = {}

\* ------------------------------------------- concurrent status updates
\* Callers of updateCredentialStatus against one stored status list: each
\* request reads credentialSubject.encodedList, applies
\* updateCredentialStatus and writes the result back.
RaceProcs == {1, 2}
SerialProcs == 1..NProcs

\* Every list of RaceSize bits that create + updates can produce.
StoredLists ==
  {encodeBitString([size |-> RaceSize, bits |-> b]) : b \in SUBSET (0..(RaceSize - 1))}

\* Requests on pairwise different indices (numbered by ascending index; the
\* order in which they run is free).
Requests(P) ==
  {f \in [P -> [index : 0..(RaceSize - 1), revoked : BOOLEAN, pc : {"start"},
                snapshot : {<<>>}, stale : {FALSE}]] :
     \A p, q \in P : p < q => f[p].index < f[q].index}

InitRequests(P) ==
  /\ bitSet = BitSetNew(RaceSize).value
  /\ encodedList \in StoredLists
  /\ base = encodedList /\ capacity = RaceSize
  /\ abstractRevoked = decodeBitString(encodedList).value.bits
  /\ last = NoCall /\ NoInputs
  /\ reqs \in Requests(P)
  /\ lastWriter = 0
  /\ NoSigning /\ NoStore

\* A request reads the stored list.
ReadList(p) ==
  /\ reqs[p].pc = "start"
  /\ reqs' = [reqs EXCEPT ![p].pc = "read", ![p].snapshot = encodedList]
  /\ UNCHANGED <<bitSet, encodedList, last, capacity, abstractRevoked, inputVars, base, lastWriter, signVars, storeVars>>

\* A request writes updateCredentialStatus(snapshot, index, revoked) back;
\* every other request that has read by now holds a stale snapshot.
WriteList(p) ==
  LET r == updateCredentialStatus(reqs[p].snapshot, reqs[p].index, reqs[p].revoked) IN
  /\ reqs[p].pc = "read"
  /\ ~r.threw
  /\ encodedList' = r.value
  /\ reqs' = [q \in DOMAIN reqs |->
                IF q = p THEN [reqs[q] EXCEPT !.pc = "done"]
                ELSE IF reqs[q].pc = "read" THEN [reqs[q] EXCEPT !.stale = TRUE]
                ELSE reqs[q]]
  /\ lastWriter' = p
  /\ abstractRevoked' = AbstractUpdate(abstractRevoked, reqs[p].index, reqs[p].revoked)
  /\ UNCHANGED <<bitSet, last, capacity, inputVars, base, signVars, storeVars>>

\* Externally serialized: read, updateCredentialStatus and write-back are one
\* atomic step against the store.
SerialUpdate(p) ==
  LET r == updateCredentialStatus(encodedList, reqs[p].index, reqs[p].revoked) IN
  /\ reqs[p].pc = "start"
  /\ ~r.threw
  /\ encodedList' = r.value
  /\ reqs' = [reqs EXCEPT ![p].pc = "done", ![p].snapshot = encodedList]
  /\ lastWriter' = p
  /\ abstractRevoked' = AbstractUpdate(abstractRevoked, reqs[p].index, reqs[p].revoked)
  /\ UNCHANGED <<bitSet, last, capacity, inputVars, base, signVars, storeVars>>

InitRace == InitRequests(RaceProcs)

NextRace ==
  \/ \E p \in RaceProcs : ReadList(p)
  \/ \E p \in RaceProcs : WriteList(p)

SpecRace == InitRace /\ [][NextRace]_vars

InitSerial == InitRequests(SerialProcs)

NextSerial == \E p \in SerialProcs : SerialUpdate(p)

SpecSerial == InitSerial /\ [][NextSerial]_vars

\* C5: without serialization a lost update is reachable: when two requests on
\* different indices have both written and the last writer had read before
\* the other wrote, the stored list carries the last writer's bit and, at the
\* other request's index, the bit the list had before either request.
C5_StaleWriteLosesUpdate ==
  \A p, q \in RaceProcs :
    (/\ p # q /\ reqs[p].pc = "done" /\ reqs[q].pc = "done"
     /\ lastWriter = q /\ reqs[q].stale) =>
      /\ isCredentialRevoked(encodedList, reqs[q].index) = Returned(reqs[q].revoked)
      /\ isCredentialRevoked(encodedList, reqs[p].index)
           = isCredentialRevoked(base, reqs[p].index)

\* Two revocations of indices that were not revoked, both completed, and the
\* stored list misses one of them.
C5_Witness ==
  \E p, q \in RaceProcs :
    /\ p # q /\ reqs[p].pc = "done" /\ reqs[q].pc = "done"
    /\ reqs[p].revoked /\ reqs[q].revoked
    /\ reqs[p].index # reqs[q].index
    /\ isCredentialRevoked(base, reqs[p].index) = Returned(FALSE)
    /\ isCredentialRevoked(base, reqs[q].index) = Returned(FALSE)
    /\ isCredentialRevoked(encodedList, reqs[q].index) = Returned(TRUE)
    /\ isCredentialRevoked(encodedList, reqs[p].index) = Returned(FALSE)

\* The list that holds every request's bit and the base list's other bits.
ExpectedFinal ==
  LET b == decodeBitString(base).value
      set == {reqs[p].index : p \in {x \in DOMAIN reqs : reqs[x].revoked}}
      cleared == {reqs[p].index : p \in {x \in DOMAIN reqs : ~reqs[x].revoked}}
  IN encodeBitString([size |-> b.size, bits |-> (b.bits \ cleared) \cup set])

\* C6: with serialized writes every completed request's bit is in the stored
\* list, and once all requests have completed the stored list is the same
\* whatever order they ran in.
C6_SerializedNoLostUpdate ==
  /\ \A p \in SerialProcs :
       reqs[p].pc = "done" =>
         isCredentialRevoked(encodedList, reqs[p].index) = Returned(reqs[p].revoked)
  /\ (\A p \in SerialProcs : reqs[p].pc = "done") => encodedList = ExpectedFinal

\* All requests completed, the highest-index one first and the lowest-index
\* one last, a revocation and a reinstatement among them that both changed
\* the list.
C6_Witness ==
  /\ \A p \in SerialProcs : reqs[p].pc = "done"
  /\ lastWriter = 1
  /\ reqs[NProcs].snapshot = base
  /\ \E p, q \in SerialProcs :
       /\ reqs[p].revoked /\ ~reqs[q].revoked
       /\ isCredentialRevoked(base, reqs[p].index) = Returned(FALSE)
       /\ isCredentialRevoked(base, reqs[q].index) = Returned(TRUE)
  /\ encodedList = ExpectedFinal

\* ------------------------------------------------ issuing and verifying
HostUrl == "https://badges.example"

Assertions ==
  [assertionId : {"a1"}, badgeId : {"b1"}, issuerId : {"issuer1", "issuer2", "issuer3"},
   recipientType : {"email", "url"}, recipientIdentity : {"recipient@example.com"},
   recipientHashed : BOOLEAN, issuedOn : {"2025-01-01T00:00:00.000Z"},
   evidenceUrl : {"", "https://example.org/evidence"}]

\* The badge row; the second issuer's badge name holds double quotes.
Badge(issuerId) ==
  [badgeId |-> "b1", issuerId |-> issuerId,
   name |-> IF issuerId = "issuer2" THEN <<"The ", "\"", "Best", "\"", " Badge">>
            ELSE <<"Test Achievement">>,
   description |-> "A test achievement", criteria |-> "Complete the tests",
   imageUrl |-> "https://example.org/badge.png"]

\* The paths a holder may change in a signed credential (proofValue excluded).
TamperPaths ==
  {<<"id">>, <<"issuanceDate">>, <<"issuer">>, <<"evidence">>,
   <<"credentialSubject", "id">>,
   <<"credentialSubject", "achievement", "name">>, <<"issuer", "id">>,
   <<"proof", "created">>, <<"proof", "verificationMethod">>,
   <<"proof", "proofPurpose">>}

TamperedValue == Str(<<"Tampered Achievement">>)

HasProof(credential) == Get(credential, "proof").t # "undef"

InitSign ==
  /\ bitSet = BitSetNew(1).value /\ encodedList = <<>> /\ capacity = 0 /\ abstractRevoked = {}
  /\ last = NoCall /\ NoInputs
  /\ base = <<>> /\ reqs = <<>> /\ lastWriter = 0
  /\ NoSigning /\ NoStore

\* constructOB3AssertionJson is called for an assertion and a badge class
\* JSON: it builds the credential (lines 341-377) and waits for getSigningKey
\* (line 380). One credential is followed from its signing to its
\* verifications.
Issue(assertion) ==
  LET badgeJson == constructOB3BadgeClassJson(HostUrl, Badge(assertion.issuerId)) IN
  /\ presented = Undefined
  /\ issuing.pc = "idle"
  /\ issuing' = [pc |-> "getSigningKey", assertion |-> assertion,
                 badgeJson |-> badgeJson,
                 credential |-> OB3Credential(HostUrl, assertion, badgeJson, "salt-uuid")]
  /\ UNCHANGED <<listVars, reqVars, storeVars,
                 signed, signerKey, issued, presented, tampered, result>>

\* getSigningKey has answered (lines 380-390): without a key record the call
\* throws and leaves no credential; with one the credential is serialized
\* and the call waits for ed.sign.
IssueSign ==
  LET assertion == issuing.assertion
      r == constructOB3AssertionJson(HostUrl, assertion, issuing.badgeJson, "salt-uuid",
                                     "2025-02-02T00:00:00.000Z")
  IN /\ issuing.pc = "getSigningKey"
     /\ issuing' = IF r.threw THEN NoIssuing ELSE [issuing EXCEPT !.pc = "sign"]
     /\ issued' = IF r.threw
                  THEN [op |-> "constructOB3AssertionJson",
                        issuerId |-> assertion.issuerId,
                        threw |-> TRUE, error |-> r.error,
                        before |-> issuing.credential, input |-> issuing.credential,
                        verificationMethod |-> getSigningKey(assertion.issuerId).keyInfo.id,
                        proofPurpose |-> "assertionMethod"]
                  ELSE issued
     /\ UNCHANGED <<listVars, reqVars, storeVars,
                    signed, signerKey, presented, tampered, result>>

\* ed.sign has answered (lines 390-404): the credential is returned with the
\* proof made over its serialization.
IssueReturn ==
  LET assertion == issuing.assertion
      r == constructOB3AssertionJson(HostUrl, assertion, issuing.badgeJson, "salt-uuid",
                                     "2025-02-02T00:00:00.000Z")
  IN /\ issuing.pc = "sign"
     /\ issuing' = NoIssuing
     /\ signed' = r.value
     /\ signerKey' = KeyOfIssuer(assertion.issuerId)
     /\ issued' = [op |-> "constructOB3AssertionJson", issuerId |-> assertion.issuerId,
                   threw |-> FALSE, error |-> "",
                   before |-> issuing.credential, input |-> r.credential,
                   verificationMethod |-> getSigningKey(assertion.issuerId).keyInfo.id,
                   proofPurpose |-> "assertionMethod"]
     /\ presented' = signed'
     /\ tampered' = {}
     /\ result' = NoResult
     /\ UNCHANGED <<listVars, reqVars, storeVars>>

\* The sample credential is signed with a key pair's private key.
SignSample(id) ==
  LET r == signCredential(SampleCredential(id), PrivateKey(id),
                          [verificationMethod |-> Str(<<"did:key:", id, "#keys-1">>),
                           proofPurpose |-> "assertionMethod"],
                          "2025-02-02T00:00:00.000Z")
  IN /\ presented = Undefined
     /\ issuing.pc = "idle"
     /\ signed' = r.value
     /\ signerKey' = id
     /\ issued' = [op |-> "signCredential", issuerId |-> "", threw |-> FALSE, error |-> "",
                   before |-> SampleCredential(id), input |-> r.credential,
                   verificationMethod |-> Str(<<"did:key:", id, "#keys-1">>),
                   proofPurpose |-> "assertionMethod"]
     /\ presented' = signed'
     /\ tampered' = {}
     /\ result' = NoResult
     /\ UNCHANGED <<listVars, reqVars, storeVars, issuing>>

\* A field of the presented credential is changed; its proofValue is kept.
Tamper(path) ==
  LET tamperedCredential == JSONRoundTrip(presented)
      r == SetPath(tamperedCredential, path, TamperedValue)
  IN
  /\ HasProof(presented)
  /\ Cardinality(tampered) < MaxTampers
  /\ GetPath(presented, path) # Returned(TamperedValue)
  /\ presented' = IF r.threw THEN presented ELSE r.value
  /\ tampered' = IF r.threw THEN tampered ELSE tampered \cup {path}
  /\ result' = NoResult
  /\ UNCHANGED <<listVars, reqVars, storeVars, signed, signerKey, issuing, issued>>

\* The credential is presented without its proof.
PresentUnsigned ==
  /\ HasProof(presented)
  /\ presented' = Delete(presented, "proof")
  /\ result' = NoResult
  /\ UNCHANGED <<listVars, reqVars, storeVars, signed, signerKey, issuing, issued, tampered>>

\* verifyCredential(presented, publicKey)
Verify(publicKey) ==
  LET r == verifyCredential(presented, publicKey) IN
  /\ presented # Undefined
  /\ result' = [done |-> TRUE, key |-> publicKey.id, threw |-> r.threw,
                outcome |-> IF r.threw THEN VerificationResult(FALSE, r.error, FALSE)
                            ELSE r.value]
  /\ UNCHANGED <<listVars, reqVars, storeVars, signed, signerKey, issuing, issued,
                 presented, tampered>>

NextSign ==
  \/ \E assertion \in Assertions : Issue(assertion)
  \/ IssueSign
  \/ IssueReturn
  \/ \E id \in KeyIds : SignSample(id)
  \/ \E path \in TamperPaths : Tamper(path)
  \/ PresentUnsigned
  \/ \E id \in KeyIds : Verify(PublicKey(id))
  \/ Verify(MalformedKey)

SpecSign == InitSign /\ [][NextSign]_vars

\* ------------------------------------------------------------ C7 .. C10
Verified == result.done /\ ~result.threw /\ result.outcome.verified

\* C7: a signed credential, unchanged since it was handed back, verified
\* with the public key of the key pair that signed it gives verified = true
\* with results.signatureVerification = true; so does the credential
\* constructOB3AssertionJson returns, with or without evidence.
C7_SignThenVerify ==
  (result.done /\ HasProof(presented) /\ tampered = {} /\ result.key = signerKey) =>
    /\ ~result.threw
    /\ result.outcome.verified
    /\ result.outcome.hasResults
    /\ result.outcome.signatureVerification

\* A credential issued without evidence (its evidence member is undefined)
\* verified with the issuer's public key.
C7_Witness ==
  /\ Verified /\ result.key = signerKey /\ tampered = {}
  /\ issued.op = "constructOB3AssertionJson"
  /\ HasKey(presented, "evidence")
  /\ Get(presented, "evidence") = Undefined
  /\ Get(Get(presented, "proof"), "proofPurpose") = Str(<<"assertionMethod">>)

\* C8 as stated: a change of any field of the signed credential, its
\* proofValue kept, makes verification with the signer's public key fail.
C8_AnyFieldTamperRejected ==
  (result.done /\ HasProof(presented) /\ tampered # {} /\ result.key = signerKey) =>
    ~Verified

\* C8, amended: a change of any field outside proof makes verification with
\* the signer's public key return verified = false; the members of proof are
\* not part of the signed payload.
C8_TamperOutsideProofRejected ==
  (/\ result.done /\ HasProof(presented) /\ result.key = signerKey
   /\ \E path \in tampered : Head(path) # "proof") =>
    /\ ~result.threw
    /\ ~result.outcome.verified

\* credentialSubject.achievement.name alone was changed and the credential
\* verified with the signer's public key.
C8_Witness ==
  /\ result.done /\ ~result.threw /\ ~result.outcome.verified
  /\ result.key = signerKey
  /\ tampered = {<<"credentialSubject", "achievement", "name">>}
  /\ GetPath(presented, <<"credentialSubject", "achievement", "name">>)
       = Returned(TamperedValue)
  /\ Get(Get(presented, "proof"), "proofValue") = Get(Get(signed, "proof"), "proofValue")

\* C9: verification with the public key of another key pair than the one
\* that signed gives verified = false.
C9_WrongKeyRejected ==
  (result.done /\ HasProof(presented) /\ result.key \in KeyIds /\ result.key # signerKey) =>
    /\ ~result.threw
    /\ ~result.outcome.verified

\* An unchanged signed credential verified with the other key pair's public
\* key.
C9_Witness ==
  /\ result.done /\ HasProof(presented) /\ tampered = {} /\ presented = signed
  /\ result.key \in KeyIds /\ signerKey \in KeyIds /\ result.key # signerKey
  /\ ~result.outcome.verified

\* C10: verifying a credential without proof returns verified = false with
\* the error "No proof found in credential"; it does not throw, whatever
\* public key it is given.
C10_NoProofFailsClosed ==
  (result.done /\ ~HasProof(presented)) =>
    /\ ~result.threw
    /\ ~result.outcome.verified
    /\ result.outcome.error = "No proof found in credential"
    /\ ~result.outcome.hasResults

\* A credential without proof handed to the verifier with a key of the wrong
\* shape.
C10_Witness ==
  /\ result.done /\ ~HasProof(presented) /\ presented # Undefined
  /\ result.key = "malformed"
  /\ ~result.threw /\ ~result.outcome.verified
  /\ result.outcome.error # ""

\* ------------------------------------------------------------ C11 .. C20
DecodedSize(list) == decodeBitString(list).value.size

\* C11: updateCredentialStatus(list, index, revoked) with index < 0 or
\* index >= the decoded length of list throws IndexOutOfRange to its caller
\* and hands back no updated list: the stored list stays as it was.
C11_UpdateOutOfRangeThrows ==
  (last.op = "update" /\ (last.arg < 0 \/ last.arg >= DecodedSize(last.prev)))
    => /\ last.threw
       /\ last.error = "IndexOutOfRange"
       /\ encodedList = last.prev

C11_Witness ==
  /\ last.op = "update" /\ last.revoked
  /\ last.arg >= DecodedSize(last.prev)
  /\ last.threw /\ last.error = "IndexOutOfRange"
  /\ \E i \in ValidIndices(encodedList) :
       isCredentialRevoked(encodedList, i) = Returned(TRUE)
\* The low 14 bits of the number written by the first eight characters of a
\* credential id, read off its fifth to eighth digit.
Low14Bits(id) ==
  (HexValue(id[5]) % 4) * 4096 + HexValue(id[6]) * 256
    + HexValue(id[7]) * 16 + HexValue(id[8])

\* C13: the index derived from a UUID is an integer in 0..16383, equal to
\* the 32-bit number written by the first eight hexadecimal characters of
\* the id, dashes removed, modulo 16384; and the id derived twice in a row,
\* whatever happened to the list in between, gives the same index.
C13_IndexBoundedAndDetermined ==
  (last.op \in {"update", "check"} /\ IsUuid(uuid))
    => /\ ~derived.value.nan
       /\ derived.value.hi = 0
       /\ derived.value.lo \in 0..16383
       /\ derived.value.lo = Low14Bits(uuid)
       /\ last.arg = derived.value.lo
       /\ (derived.before # <<>> /\ derived.before[1] = uuid)
            => derived.before[2] = derived.value

\* An id above 2^31 whose number wraps past 16384 was derived twice in a
\* row, on a list that an update had changed.
C13_Witness ==
  /\ IsUuid(uuid) /\ uuid[1] = 102 /\ uuid[5] = 52
  /\ last.op = "check" /\ derived.value = Number(0, 15)
  /\ derived.before = <<uuid, Number(0, 15)>>
  /\ encodedList # createEncodedBitString(capacity).value
\* C14 (as claimed): for a status list created with any capacity N > 0, the
\* index derived from a UUID is below N, so updateCredentialStatus and
\* isCredentialRevoked on that list are never given an out-of-range index.
C14_IndexBelowCapacity ==
  (last.op \in {"update", "check"} /\ IsUuid(uuid))
    => (~derived.value.nan /\ derived.value.lo < capacity)
\* C15: the derivation is not collision-free: UUIDs that differ in their
\* first 32 bits only above the low 14 share one index, and once
\* updateCredentialStatus has set (or cleared) the bit of one of them,
\* isCredentialRevoked answers the same for every other.
C15_CollidingIdsShareStatus ==
  (last.op = "update" /\ ~last.threw /\ IsUuid(uuid))
    => \A other \in Uuids :
         Low14Bits(other) = Low14Bits(uuid)
           => /\ other # uuid => getIndexFromUuid(other) = derived.value
              /\ isCredentialRevoked(encodedList, getIndexFromUuid(other).lo)
                   = Returned(last.revoked)

\* Revoking one UUID turned the answer for another UUID from false to true.
C15_Witness ==
  /\ last.op = "update" /\ last.revoked /\ ~last.threw /\ IsUuid(uuid)
  /\ \E other \in Uuids :
       /\ other # uuid
       /\ getIndexFromUuid(other) = derived.value
       /\ isCredentialRevoked(last.prev, getIndexFromUuid(other).lo) = Returned(FALSE)
       /\ isCredentialRevoked(encodedList, getIndexFromUuid(other).lo) = Returned(TRUE)
\* C16: when the key provider has no key record for the issuer of an
\* assertion, constructOB3AssertionJson raises "Issuer signing key not found"
\* and returns no credential, signed or unsigned.
C16_MissingKeyRaises ==
  (issued.op = "constructOB3AssertionJson" /\ ~getSigningKey(issued.issuerId).found)
    => /\ issued.threw
       /\ issued.error = "Issuer signing key not found"
       /\ signed = Undefined
       /\ presented = Undefined

C16_Witness ==
  /\ issued.op = "constructOB3AssertionJson" /\ issued.issuerId = "issuer3"
  /\ issued.threw /\ issued.error = "Issuer signing key not found"
  /\ signed = Undefined
\* The members of an object other than proof, in order.
NonProofMembers(credential) == Delete(credential, "proof").o

\* C17: signing adds exactly one member, proof: every other member of the
\* signed credential is the input's, in the input's order; the proof has type
\* DataIntegrityProof, cryptosuite eddsa-rdfc-2022, the given proofPurpose and
\* verificationMethod, a created timestamp, and a proofValue that is the
\* signature over the serialization of the credential, which has no proof;
\* the credential handed to the signing is after the call what it was before
\* it, and neither the assertions table nor the status list has been
\* written.
C17_SigningAddsOnlyProof ==
  (signed # Undefined)
    => LET proof == Get(signed, "proof") IN
       /\ ~HasKey(issued.before, "proof")
       /\ NonProofMembers(signed) = issued.before.o
       /\ Len(signed.o) = Len(issued.before.o) + 1
       /\ [i \in DOMAIN proof.o |-> proof.o[i].k]
            = <<"type", "cryptosuite", "created", "verificationMethod",
                "proofPurpose", "proofValue">>
       /\ Get(proof, "type") = Str(<<"DataIntegrityProof">>)
       /\ Get(proof, "cryptosuite") = Str(<<"eddsa-rdfc-2022">>)
       /\ Get(proof, "created").t = "str"
       /\ Get(proof, "verificationMethod") = issued.verificationMethod
       /\ Get(proof, "proofPurpose") = Str(<<issued.proofPurpose>>)
       /\ Get(proof, "proofValue")
            = Base64UrlEncode(EdSign(TextEncode(JSONstringify(issued.before)),
                                     PrivateKey(signerKey)))
       /\ issued.input = issued.before
       /\ ~HasKey(issued.input, "proof")
       /\ badgeAssertions = {}
       /\ encodedList = <<>>

\* The sample credential was signed: it has its proof and the credential
\* handed in has none.
C17_Witness ==
  /\ signed # Undefined /\ issued.op = "signCredential"
  /\ HasProof(signed) /\ ~HasProof(issued.input)
  /\ issued.input = SampleCredential(signerKey)
  /\ presented = signed
\* C18: the length of a status list never changes: in every state, after any
\* run of successful and failed updateCredentialStatus calls, the stored
\* list decodes to as many bits as the list was created with, leading zero
\* bits included.
C18_LengthImmutable ==
  /\ ~decodeBitString(encodedList).threw
  /\ DecodedSize(encodedList) = capacity

C18_Witness ==
  /\ last.op = "update" /\ ~last.revoked /\ ~last.threw
  /\ capacity > 1 /\ last.arg = capacity - 1
  /\ isCredentialRevoked(last.prev, last.arg) = Returned(TRUE)
  /\ decodeBitString(encodedList).value.bits = {}
  /\ DecodedSize(encodedList) = capacity
\* The vector decodeBitString is to give for a text: as long as the text,
\* bit (length - 1 - i) set exactly when character i is "1".
DecodedAsClaimed ==
  /\ bitSet.size = Len(text)
  /\ bitSet.bits \subseteq 0..(Len(text) - 1)
  /\ \A i \in 0..(Len(text) - 1) :
       ((Len(text) - 1 - i) \in bitSet.bits) <=> (text[i + 1] = Char1)

  /\ bitSet = [size |-> 4, bits |-> {0, 3}]
\* C20: createEncodedBitString(size) and createStatusListCredential(issuer,
\* id, purpose, size) called with size <= 0 fail and return no list; the
\* stored list stays as it was.
C20_NonPositiveSizeFails ==
  (last.op \in {"create", "createCredential"} /\ last.arg <= 0)
    => /\ last.threw
       /\ encodedList = last.prev
       /\ DecodedSize(encodedList) = capacity
       /\ createEncodedBitString(last.arg).threw
       /\ \A purpose \in StatusPurposes :
            createStatusListCredential(StatusListIssuer, StatusListId, purpose,
                                       last.arg, "2025-02-02T00:00:00.000Z").threw

C20_Witness ==
  /\ last.op = "createCredential" /\ last.arg = 0 /\ last.threw
  /\ capacity > 0
  /\ \E i \in ValidIndices(encodedList) :
       isCredentialRevoked(encodedList, i) = Returned(TRUE)
\* ------------------------------------------------- stored assertion JSON
Null == [t |-> "null", s |-> <<>>, o |-> <<>>]

\* The text of a string: its parts, one after the other.
RECURSIVE TextOf(_)
TextOf(parts) == IF parts = <<>> THEN "" ELSE Head(parts) \o TextOf(Tail(parts))

\* !value
Not(value) ==
  \/ value.t \in {"undef", "null"}
  \/ value = Bool(FALSE)
  \/ value.t = "str" /\ TextOf(value.s) = ""

\* ctx.includes("credentials/v1"): the search string stands at some place
\* of ctx.
IncludesCredentialsV1(ctx) ==
  LET string == TextOf(ctx.s)
      n == Len("credentials/v1") IN
  \E i \in 1..(Len(string) - n + 1) : SubSeq(string, i, i + n - 1) = "credentials/v1"

\* Array.isArray(maybeOB3["@context"]) && maybeOB3["@context"].some(ctx =>
\*   typeof ctx === "string" && ctx.includes("credentials/v1"))
IsOB3(maybeOB3) ==
  LET context == Get(maybeOB3, "@context") IN
  /\ context.t = "arr"
  /\ \E i \in DOMAIN context.o :
       /\ context.o[i].k = ""
       /\ context.o[i].v.t = "str"
       /\ IncludesCredentialsV1(context.o[i].v)

\* db.select().from(badgeAssertions).where(eq(assertionId)).limit(1); the
\* assertion id is the table's key.
SelectAssertion(rows, assertionId) ==
  LET found == {row \in rows : row.assertionId = assertionId}
  IN IF found = {} THEN <<>> ELSE <<CHOOSE row \in found : TRUE>>

\* getAssertionJson(assertionId) once its select has answered with the rows
\* assertion: the error it throws, or the reader it hands the id to.
getAssertionJson(assertion, assertionId) ==
  IF Len(assertion) = 0 THEN Threw("Assertion " \o assertionId \o " not found")
  ELSE LET assertionJson == assertion[1].assertionJson IN
       IF Not(assertionJson)
       THEN Threw("Assertion " \o assertionId \o " has no JSON data")
       ELSE IF IsOB3(assertionJson) THEN Returned("getOB3CredentialJson")
       ELSE Returned("getOB2AssertionJson")

\* updateAssertionJson(assertionId, updates): the updater it hands updates to.
UpdatePath(updates) ==
  IF IsOB3(updates) THEN "updateOB3CredentialJson" ELSE "updateOB2AssertionJson"

\* The assertionJson seedTestData inserts for its assertion.
SeededAssertionJson(assertionId) ==
  Obj(<<Member("@context", Str(<<"https://w3id.org/openbadges/v2">>)),
        Member("type", Str(<<"Assertion">>)),
        Member("id", Str(<<"https://example.org/assertions/", assertionId>>)),
        Member("recipient", Obj(<<Member("type", Str(<<"email">>)),
                                  Member("identity", Str(<<"recipient@example.com">>)),
                                  Member("hashed", Bool(FALSE))>>)),
        Member("badge", Str(<<"https://example.org/badges/test-badge">>)),
        Member("issuedOn", Str(<<"2025-02-02T00:00:00.000Z">>)),
        Member("verification", Obj(<<Member("type", Str(<<"hosted">>))>>)),
        Member("evidence", Str(<<"https://example.org/evidence">>)),
        Member("proof",
               Obj(<<Member("type", Str(<<"DataIntegrityProof">>)),
                     Member("cryptosuite", Str(<<"eddsa-rdfc-2022">>)),
                     Member("created", Str(<<"2025-02-02T00:00:00.000Z">>)),
                     Member("verificationMethod",
                            Str(<<"did:key:", "z6MksSBa6fJgGBw4m3WxoLLHJ4mji9iodcYQXJmF7xT9wFQZ",
                                  "#", "z6MksSBa6fJgGBw4m3WxoLLHJ4mji9iodcYQXJmF7xT9wFQZ">>)),
                     Member("proofPurpose", Str(<<"assertionMethod">>)),
                     Member("proofValue",
                            Str(<<"z4oey5q2M3XKaxup3tmzN4DRFTLVqpLMweBrSxMY2xnrHmKYhBrTuxmTcBNwDiond5bnVKXdK7xRMCa2Z2GuRQcKS">>))>>))>>)

\* The assertion ids drawn by crypto.randomUUID() and asked for by tests.
AssertionIds == {"a1", "a2"}

\* The @context values met: the OB3 array, the OB2 string, a credentials/v2
\* array, an array holding an object, the string credentials/v1 outside an
\* array, and an array whose string holds credentials/v1 inside longer words.
Contexts ==
  {OB3_CREDENTIAL_CONTEXT,
   Str(<<"https://w3id.org/openbadges/v2">>),
   Arr(<<Str(<<"https://www.w3.org/ns/credentials/v2">>), Str(<<"OB3_CONTEXT_URL">>)>>),
   Arr(<<Obj(<<Member("@vocab", Str(<<"https://www.w3.org/2018/credentials/v1">>))>>)>>),
   Str(<<"https://www.w3.org/2018/credentials/v1">>),
   Arr(<<Str(<<"https://example.org/my", "credentials/v1", "beta">>)>>)}

\* Partial updates: with or without @context.
PartialUpdates ==
  {Obj(<<Member("revoked", Bool(TRUE))>>), Obj(<<>>)}
    \cup {Obj(<<Member("@context", context)>>) : context \in Contexts}

\* What updateOB3CredentialJson and updateOB2AssertionJson (of
\* tests/helpers/test-utils) hand back as updatedJson: some JSON value.
UpdatedJsons ==
  {Null,
   Obj(<<Member("@context", OB3_CREDENTIAL_CONTEXT), Member("revoked", Bool(TRUE))>>),
   Obj(<<Member("@context", Str(<<"https://w3id.org/openbadges/v2">>)),
         Member("revoked", Bool(TRUE))>>)}

\* Before any test data is seeded the assertions table is empty.
InitStore ==
  /\ bitSet = BitSetNew(1).value /\ encodedList = <<>> /\ capacity = 0
  /\ abstractRevoked = {}
  /\ last = NoCall /\ NoInputs
  /\ base = <<>> /\ reqs = <<>> /\ lastWriter = 0
  /\ NoSigning /\ NoStore

\* A call that waits: the helper, what it awaits, and its arguments.
HelperCall(op, pc, assertionId, updates, path, updatedJson) ==
  [op |-> op, pc |-> pc, assertionId |-> assertionId, updates |-> updates,
   path |-> path, updatedJson |-> updatedJson]

\* The helpers are plain async functions: a call is made whatever other calls
\* wait, and the awaited database operations answer in any order.
Called(call) ==
  /\ Len(helperCalls) < MaxCalls
  /\ helperCalls' = Append(helperCalls, call)
  /\ UNCHANGED <<listVars, reqVars, signVars, badgeAssertions, jsonCall>>

\* The call at place i has returned or thrown.
Returns(i) ==
  helperCalls' = SubSeq(helperCalls, 1, i - 1) \o SubSeq(helperCalls, i + 1, Len(helperCalls))

\* What clearTestData awaits, in order: SET session_replication_role (254),
\* the list of tables (258), the delete of each table (272-296), and SET
\* session_replication_role in its finally (305).
ClearAwaits ==
  <<"replica", "tables", "badge_assertions", "badge_classes", "signing_keys",
    "issuer_profiles", "verification_codes", "revoked_tokens", "users", "origin">>

\* clearTestData() is called and waits for its first statement.
ClearTestData ==
  Called(HelperCall("clearTestData", ClearAwaits[1], "", Undefined, "", Undefined))

\* seedTestData() is called: it calls clearTestData() (line 43), which waits
\* for its first statement.
SeedTestData ==
  Called(HelperCall("seedTestData", ClearAwaits[1], "", Undefined, "", Undefined))

\* A statement clearTestData awaits has run: db.delete(badgeAssertions)
\* empties the table (the table exists where it has rows); after the last,
\* clearTestData returns, and seedTestData goes on to its transaction.
ClearStep(i) ==
  /\ i \in DOMAIN helperCalls
  /\ \E k \in DOMAIN ClearAwaits :
       /\ helperCalls[i].pc = ClearAwaits[k]
       /\ badgeAssertions' = IF ClearAwaits[k] = "badge_assertions" THEN {}
                             ELSE badgeAssertions
       /\ IF k < Len(ClearAwaits)
          THEN /\ helperCalls' = [helperCalls EXCEPT ![i].pc = ClearAwaits[k + 1]]
               /\ UNCHANGED jsonCall
          ELSE IF helperCalls[i].op = "seedTestData"
          THEN /\ helperCalls' = [helperCalls EXCEPT ![i].pc = "transaction"]
               /\ UNCHANGED jsonCall
          ELSE /\ Returns(i)
               /\ jsonCall' = [NoJsonCall EXCEPT !.op = "clearTestData"]
  /\ UNCHANGED <<listVars, reqVars, signVars>>

\* The transaction of seedTestData commits: the assertion row is there under
\* the id crypto.randomUUID() gave, which no row has (lines 46-197), and the
\* call returns.
SeedInsert(i, assertionId) ==
  /\ i \in DOMAIN helperCalls
  /\ helperCalls[i].pc = "transaction"
  /\ SelectAssertion(badgeAssertions, assertionId) = <<>>
  /\ badgeAssertions' = badgeAssertions
                          \cup {[assertionId |-> assertionId,
                                 assertionJson |-> SeededAssertionJson(assertionId)]}
  /\ Returns(i)
  /\ jsonCall' = [NoJsonCall EXCEPT !.op = "seedTestData", !.assertionId = assertionId]
  /\ UNCHANGED <<listVars, reqVars, signVars>>

\* getAssertionJson(assertionId) up to its await of the select (line 363).
GetAssertionJson(assertionId) ==
  Called(HelperCall("getAssertionJson", "select", assertionId, Undefined, "", Undefined))

\* The select has answered (lines 363-390): the call throws or hands the id
\* to a reader.
GetSelected(i) ==
  /\ i \in DOMAIN helperCalls
  /\ helperCalls[i].pc = "select"
  /\ LET assertionId == helperCalls[i].assertionId
         assertion == SelectAssertion(badgeAssertions, assertionId)
         r == getAssertionJson(assertion, assertionId)
     IN jsonCall' = [op |-> "getAssertionJson", assertionId |-> assertionId,
                     assertion |-> assertion,
                     path |-> IF r.threw THEN "" ELSE r.value,
                     threw |-> r.threw, error |-> r.error]
  /\ Returns(i)
  /\ UNCHANGED <<listVars, reqVars, signVars, badgeAssertions>>

\* updateAssertionJson(assertionId, updates) up to its await of db.update
\* (lines 400-417): an updater is chosen by the updates and hands back
\* updatedJson.
UpdateAssertionJson(assertionId, updates, updatedJson) ==
  Called(HelperCall("updateAssertionJson", "db.update", assertionId, updates,
                    UpdatePath(updates), updatedJson))

\* db.update(badgeAssertions).set({assertionJson: updatedJson}).where(eq(
\* assertionId)) has run (lines 417-422), and the call returns.
UpdateWritten(i) ==
  /\ i \in DOMAIN helperCalls
  /\ helperCalls[i].pc = "db.update"
  /\ badgeAssertions' =
       {IF row.assertionId = helperCalls[i].assertionId
        THEN [row EXCEPT !.assertionJson = helperCalls[i].updatedJson]
        ELSE row : row \in badgeAssertions}
  /\ jsonCall' = [NoJsonCall EXCEPT !.op = "updateAssertionJson",
                                    !.assertionId = helperCalls[i].assertionId,
                                    !.path = helperCalls[i].path]
  /\ Returns(i)
  /\ UNCHANGED <<listVars, reqVars, signVars>>

NextStore ==
  \/ ClearTestData
  \/ SeedTestData
  \/ \E i \in 1..MaxCalls : ClearStep(i)
  \/ \E i \in 1..MaxCalls, assertionId \in AssertionIds : SeedInsert(i, assertionId)
  \/ \E assertionId \in AssertionIds : GetAssertionJson(assertionId)
  \/ \E i \in 1..MaxCalls : GetSelected(i)
  \/ \E assertionId \in AssertionIds, updates \in PartialUpdates,
        updatedJson \in UpdatedJsons :
         UpdateAssertionJson(assertionId, updates, updatedJson)
  \/ \E i \in 1..MaxCalls : UpdateWritten(i)

SpecStore == InitStore /\ [][NextStore]_vars

\* ------------------------------------------------------------ C21 .. C24
\* C21 (as claimed): getIndexFromUuid given a string that is not a UUID
\* reports a MalformedInput error and returns no value.
C21_NonUuidIsMalformedInput ==
  (derived.called /\ ~IsUuid(uuid))
    => (derived.threw /\ derived.error = "MalformedInput")
\* C22: starting from a fresh list and applying updateCredentialStatus calls
\* one after another, the stored list represents exactly the abstract revoked
\* set: isCredentialRevoked(list, i) is true if and only if the most recent
\* successful update at i revoked it, and false for an index never updated.
C22_ListRefinesRevokedSet ==
  /\ abstractRevoked \subseteq 0..(capacity - 1)
  /\ DecodedSize(encodedList) = capacity
  /\ \A i \in 0..(capacity - 1) :
       isCredentialRevoked(encodedList, i) = Returned(i \in abstractRevoked)

C22_Witness ==
  /\ last.op = "update" /\ ~last.revoked /\ ~last.threw
  /\ isCredentialRevoked(last.prev, last.arg) = Returned(TRUE)
  /\ last.arg \notin abstractRevoked
  /\ Cardinality(abstractRevoked) >= 2
  /\ Cardinality(abstractRevoked) < capacity - 1
\* C24 (as claimed): updateAssertionJson takes the OB3 update path exactly
\* for an assertion that getAssertionJson reads as OB3, whatever the partial
\* update holds, an update without @context included; otherwise both take
\* the OB2 path. Stated of the step in which updateAssertionJson is called,
\* for the row as stored at that moment.
C24_SameClassification ==
  [][\A i \in DOMAIN helperCalls' :
       (i \notin DOMAIN helperCalls /\ helperCalls'[i].op = "updateAssertionJson")
         => LET assertionId == helperCalls'[i].assertionId
                read == getAssertionJson(SelectAssertion(badgeAssertions, assertionId),
                                         assertionId)
            IN ~read.threw
                 => (helperCalls'[i].path = "updateOB3CredentialJson"
                       <=> read = Returned("getOB3CredentialJson"))]_vars
====
